---- MODULE Spec2Model ----
(***************************************************************************)
(* AI News Orchestrator: the chunker, the event extractor, the redirect    *)
(* resolver and the Streamlit search / derived-operation handlers of       *)
(* app.py, with the sentence-aware chunker and the unguarded extractor of  *)
(* archive/app_selenium_2.py.                                              *)
(*                                                                         *)
(* A text is a sequence of one-character strings.  An external call (the   *)
(* browser driver, trafilatura, the language model) is an outcome drawn    *)
(* from a small set; a Python call's result is a record                    *)
(* [raised |-> BOOLEAN, value |-> ...].                                    *)
(***************************************************************************)
EXTENDS Integers, Sequences, FiniteSets, TLC

\* ------------------------------------------------------------------ bounds
MaxTextLen == 5
MaxWordsArg == 3
MaxEntries == 2
MaxRuns == 2
MaxFeed == 11
MaxPromptLen == 2
MaxTime == 2
MaxTimelineEntries == 3

\* --------------------------------------------------------- program constants
DefaultMaxWords == 300

\* ------------------------------------------------------------------- texts
Letters == {"a", "b"}
SentenceEnd == {".", "?", "!"}
Whitespace == {" "}
Alphabet == Letters \cup {"."} \cup Whitespace

\* Python's None where a text, or the name of one, is expected.
None == "None"

IsSpace(c) == c \in Whitespace

Min(a, b) == IF a < b THEN a ELSE b

\* str.split() with no argument: the maximal runs of non-whitespace.
WordStart(t, i) == ~IsSpace(t[i]) /\ (i = 1 \/ IsSpace(t[i - 1]))

RECURSIVE WordEnd(_, _)
WordEnd(t, i) == IF i = Len(t) \/ IsSpace(t[i + 1]) THEN i ELSE WordEnd(t, i + 1)

RECURSIVE WordsIn(_, _, _)
WordsIn(t, lo, hi) ==
    IF lo > hi THEN << >>
    ELSE IF lo = hi
         THEN (IF WordStart(t, lo) THEN << SubSeq(t, lo, WordEnd(t, lo)) >> ELSE << >>)
         ELSE LET mid == (lo + hi) \div 2
              IN  WordsIn(t, lo, mid) \o WordsIn(t, mid + 1, hi)

split(t) == WordsIn(t, 1, Len(t))

\* " ".join(ws[lo..hi])
RECURSIVE JoinRange(_, _, _)
JoinRange(ws, lo, hi) ==
    IF lo > hi THEN << >>
    ELSE IF lo = hi THEN ws[lo]
         ELSE LET mid == (lo + hi) \div 2
              IN  JoinRange(ws, lo, mid) \o << " " >> \o JoinRange(ws, mid + 1, hi)

join(ws) == JoinRange(ws, 1, Len(ws))

\* str.strip()
RECURSIVE FirstNonSpace(_, _)
FirstNonSpace(t, i) ==
    IF i > Len(t) THEN i ELSE IF IsSpace(t[i]) THEN FirstNonSpace(t, i + 1) ELSE i

RECURSIVE LastNonSpace(_, _)
LastNonSpace(t, i) ==
    IF i < 1 THEN i ELSE IF IsSpace(t[i]) THEN LastNonSpace(t, i - 1) ELSE i

strip(t) == SubSeq(t, FirstNonSpace(t, 1), LastNonSpace(t, Len(t)))

\* re.split(r'(?<=[.?!])\s+', text): the text is cut at every whitespace run
\* that directly follows a sentence-ending character; the run is dropped.
\* from is the start of the piece being read, i the position examined.
RECURSIVE SplitSentences(_, _, _)
SplitSentences(t, from, i) ==
    IF i > Len(t) THEN << SubSeq(t, from, Len(t)) >>
    ELSE IF IsSpace(t[i]) /\ i > 1 /\ t[i - 1] \in SentenceEnd
         THEN LET next == FirstNonSpace(t, i)
              IN  << SubSeq(t, from, i - 1) >> \o SplitSentences(t, next, next)
         ELSE SplitSentences(t, from, i + 1)

re_split_sentences(t) == SplitSentences(t, 1, 1)

\* ---------------------------------------------------------------- chunkers
\* app.py: fixed word-window.  range(0, len(words), max_words) has
\* ceil(len(words) / max_words) elements.
chunk_text_dropword(t, max_words) ==
    LET words == split(t)
        n == Len(words)
        k == (n + max_words - 1) \div max_words
    IN  [c \in 1..k |->
            join(SubSeq(words, (c - 1) * max_words + 1, Min(c * max_words, n) - 1))]

chunk_text_wide(t, max_words) ==
    LET words == split(t)
        n == Len(words)
        w == max_words + 1
        k == (n + w - 1) \div w
    IN  [c \in 1..k |-> join(SubSeq(words, (c - 1) * w + 1, Min(c * w, n)))]

chunk_text(t, max_words) ==
    LET words == split(t)
        n == Len(words)
        k == (n + max_words - 1) \div max_words
    IN  [c \in 1..k |->
            join(SubSeq(words, (c - 1) * max_words + 1, Min(c * max_words, n)))]

\* archive/app_selenium_2.py: sentence-boundary-aware.  The loop over the
\* sentences with its two locals, then the final flush.
RECURSIVE SentenceLoop(_, _, _, _, _)
SentenceLoop(sentences, i, done, current, max_words) ==
    IF i > Len(sentences)
    THEN IF strip(current) # << >> THEN Append(done, strip(current)) ELSE done
    ELSE LET s == sentences[i]
         IN  IF Len(split(current \o s)) < max_words
             THEN SentenceLoop(sentences, i + 1, done, current \o << " " >> \o s, max_words)
             ELSE SentenceLoop(sentences, i + 1, Append(done, strip(current)), s, max_words)

chunk_text_sentences(t, max_words) ==
    SentenceLoop(re_split_sentences(t), 1, << >>, << >>, max_words)

\* ------------------------------------------------------------ external calls
\* What a call of the language model can do: raise, or return a completion.
LLMOutcomes == {"raise", "completion"}

GPTErrorMarker == "[GPT Error]"

Returned(v) == [raised |-> FALSE, value |-> v]
Raised(e) == [raised |-> TRUE, value |-> e]

\* client.responses.create(...).output_text; tag names the run that asked.
responses_create(llm, tag) ==
    IF llm = "raise" THEN Raised("APIError") ELSE Returned(<< "completion", tag >>)

\* app.py ask_gpt: every Exception becomes f"[GPT Error] {e}".
ask_gpt(llm, tag) ==
    LET response == responses_create(llm, tag)
    IN  IF response.raised
        THEN Returned(<< GPTErrorMarker, response.value >>)
        ELSE Returned(response.value)

HasMarker(v) == Len(v) >= 1 /\ v[1] = GPTErrorMarker

\* app.py extract_events_from_chunk: the prompt is built, ask_gpt called.
extract_events_from_chunk(chunk, metadata, llm, tag) == ask_gpt(llm, tag)

\* archive/app_selenium_2.py extract_events_from_chunk: no try around the call.
extract_events_from_chunk_archive(chunk, metadata, llm, tag) ==
    responses_create(llm, tag)

\* app.py merge_events_to_timeline
merge_events_to_timeline(events_list, llm, tag) == ask_gpt(llm, tag)

\* What the browser driver can do during resolve_real_url.
DriverOutcomes == {"ok", "create_fails", "get_fails", "quit_fails"}

Resolved(google_url) == << "real", google_url >>

\* app.py resolve_real_url: the driver is created before the try; the try
\* covers driver.get and current_url; driver.quit() runs in the finally.
resolve_real_url(google_url, driver) ==
    IF driver = "create_fails" THEN Raised("WebDriverException")
    ELSE IF driver = "quit_fails" THEN Raised("WebDriverException")
    ELSE IF driver = "get_fails" THEN Returned(google_url)
    ELSE Returned(Resolved(google_url))

\* What trafilatura can do during extract_text: fetch_url raises, fetch_url
\* returns nothing, extract returns None, or extract returns a text.
FetchFailures == {"fetch_raises", "fetch_nothing", "extract_none"}

Page(t) == [kind |-> "text", text |-> t]
Failure(k) == [kind |-> k, text |-> None]

\* app.py extract_text: None unless fetch_url returned a page, and then
\* whatever trafilatura.extract returned.
extract_text(url, page) == IF page.kind \in FetchFailures THEN None ELSE page.text

\* A credibility completion, by what json.loads makes of it: not JSON, a JSON
\* value that is no object, or an object with its "score" member.
Json(kind, score) == [kind |-> kind, score |-> score]
ScoreInt(n) == [t |-> "int", v |-> n]
ScoreMissing == [t |-> "missing", v |-> 0]
ScoreNull == [t |-> "null", v |-> 0]
ScoreWord == [t |-> "str", v |-> 0]
FallbackScore == 50
FallbackJson == Json("object", ScoreInt(FallbackScore))

CredOutcomes ==
    {Json("raise", ScoreMissing), Json("not_json", ScoreMissing),
     Json("array", ScoreMissing), Json("object", ScoreMissing),
     Json("object", ScoreNull), Json("object", ScoreWord),
     Json("object", ScoreInt(80)), Json("object", ScoreInt(20)),
     Json("object", ScoreInt(FallbackScore))}

\* app.py get_credibility_score: its own try around the model call; a
\* failure yields the fixed JSON text with score 50.
get_credibility_score(article, cred) ==
    IF cred.kind = "raise" THEN Returned(FallbackJson) ELSE Returned(cred)

\* app.py render_article_card: json.loads is guarded, data.get and int() are
\* not; the colour follows the score.
Colour(score) ==
    IF score >= 75 THEN "#4CAF50" ELSE IF score >= 50 THEN "#FFC107" ELSE "#F44336"

render_article_card(article, credibility_json) ==
    LET data == IF credibility_json.kind = "not_json" THEN FallbackJson
                ELSE credibility_json
    IN  IF data.kind # "object" THEN Raised("AttributeError")
        ELSE IF data.score.t = "missing"
             THEN Returned([score |-> FallbackScore, color |-> Colour(FallbackScore)])
        ELSE IF data.score.t = "null" THEN Raised("TypeError")
        ELSE IF data.score.t = "str" THEN Raised("ValueError")
        ELSE Returned([score |-> data.score.v, color |-> Colour(data.score.v)])

\* app.py translate_timeline, extract_key_highlights, compare_sources: one
\* prompt each, handed to ask_gpt.
translate_timeline(timeline, target_lang, llm, tag) == ask_gpt(llm, tag)

extract_key_highlights(timeline, llm, tag) == ask_gpt(llm, tag)

compare_sources(articles, llm, tag) == ask_gpt(llm, tag)

\* ------------------------------------------------- the summariser variants
\* entry.published as dateutil reads it: unparseable (or missing), a time
\* with a UTC offset (aware), or a time without one (naive).  t orders the
\* times of one kind.
Published(kind, t) == [kind |-> kind, t |-> t]
Unparseable == Published("unparseable", 0)
PublishedValues ==
    {Unparseable} \cup {Published(k, t) : k \in {"aware", "naive"}, t \in 1..MaxTime}

\* Python's None where a datetime is expected.
NoDate == Published("None", 0)

\* parser.parse(entry.published) inside try/except: None on any exception.
parse_published(published) ==
    IF published.kind = "unparseable" THEN NoDate ELSE published

\* A feed entry of the summarisers: its publish time and whether its text
\* (title and summary in archive/app.py) can be extracted.
FeedEntries == [published : PublishedValues, extractable : BOOLEAN]

\* The sort keys: x["published"] or datetime.now() is a datetime, naive when
\* it is now; x["published"] or 0 is a datetime or the integer 0.
KeyOrNow(published, now) ==
    IF published = NoDate THEN Published("naive", now) ELSE published
KeyOrZero(published) ==
    IF published = NoDate THEN Published("int", 0) ELSE published

\* Python orders two datetimes only when both are aware or both naive, and
\* never a datetime with an integer: the comparison raises TypeError.
Comparable(k1, k2) == k1.kind = k2.kind

\* for entry in entries: ... if text: events.append({...}); id is the place
\* of the entry in the feed.
RECURSIVE CollectEvents(_, _)
CollectEvents(es, i) ==
    IF i > Len(es) THEN << >>
    ELSE LET rest == CollectEvents(es, i + 1)
         IN  IF es[i].extractable
             THEN << [id |-> i, published |-> parse_published(es[i].published)] >>
                      \o rest
             ELSE rest

\* The events with the key list.sort computes for each.
WithKey(e, k) == [id |-> e.id, published |-> e.published, key |-> k]

KeyedOrNow(events, now) ==
    [i \in 1..Len(events) |-> WithKey(events[i], KeyOrNow(events[i].published, now))]

KeyedOrZero(events) ==
    [i \in 1..Len(events) |-> WithKey(events[i], KeyOrZero(events[i].published))]

\* list.sort(key=...): stable, ascending; e goes behind the events whose key
\* is not greater.
RECURSIVE InsertSorted(_, _)
InsertSorted(sorted, e) ==
    IF sorted = << >> THEN << e >>
    ELSE IF Head(sorted).key.t <= e.key.t
         THEN << Head(sorted) >> \o InsertSorted(Tail(sorted), e)
         ELSE << e >> \o sorted

RECURSIVE SortEvents(_, _)
SortEvents(events, n) ==
    IF n = 0 THEN << >> ELSE InsertSorted(SortEvents(events, n - 1), events[n])

\* list.sort raises as soon as it compares two keys Python cannot order, and
\* ordering any list makes it compare keys of every kind present.
list_sort(events) ==
    IF \E i, j \in 1..Len(events) : ~Comparable(events[i].key, events[j].key)
    THEN Raised("TypeError")
    ELSE Returned(SortEvents(events, Len(events)))

\* entries[:3] of app_selenium.py
TimelineCap == 3

\* app_selenium.py build_timeline
build_timeline(es, now) ==
    list_sort(KeyedOrNow(CollectEvents(SubSeq(es, 1, Min(Len(es), TimelineCap)), 1), now))

\* archive/app_2.py build_timeline: every entry, the same key.
build_timeline_app_2(es, now) ==
    list_sort(KeyedOrNow(CollectEvents(es, 1), now))

\* archive/app.py build_timeline: the article's own date taken as absent, so
\* that the date is the feed's; the key is x["published"] or 0.
build_timeline_app(es) ==
    list_sort(KeyedOrZero(CollectEvents(es, 1)))

\* ------------------------------------------------------------------- state
VARIABLES
    fn,             \* the function last applied alone ("none" before any)
    fn_in,          \* its inputs
    fn_out,         \* its result
    world,          \* what the collaborators may answer in this session
    session_state,  \* st.session_state
    pc,             \* where the running script is; "idle" between interactions
    run,            \* searches started so far; tags what the collaborators return
    fetched,        \* feed entries returned so far
    entries,        \* the search handler's locals
    idx,
    real_url,
    text,
    articles_data,
    all_events,
    ai,
    chunks,
    ci,
    calls,          \* the external calls of the current script run, in order
                    \* (emptied when the run crashes or is stopped)
    shown,          \* the messages the current script run has displayed
    outcome,        \* how the last script run ended
    cleared         \* the derived artifacts the last completed search found
                    \* filled and emptied

fnvars == << fn, fn_in, fn_out >>
locals == << entries, idx, real_url, text, articles_data, all_events, ai, chunks, ci >>
appvars == << world, session_state, pc, run, fetched, locals, calls, shown, outcome, cleared >>
vars == << fnvars, appvars >>

AllTexts == UNION {[1..n -> Alphabet] : n \in 0..MaxTextLen}

\* A text of n one-letter words.
Words(n) == [i \in 1..(2 * n - 1) |-> IF i % 2 = 1 THEN "a" ELSE " "]

\* The article bodies the extraction may return.  The state holds a body by
\* its name; Body gives the text: empty, one word, and one word more than
\* the default chunk size.
PageTexts == {"empty", "one_word", "two_chunks"}

Body(name) ==
    IF name = "empty" THEN << >>
    ELSE IF name = "one_word" THEN Words(1)
    ELSE Words(DefaultMaxWords + 1)

Pages == {Failure(k) : k \in FetchFailures} \cup {Page(t) : t \in PageTexts}

\* chunk_text(article["content"]) for each body, at the default max_words
\* (a table, so that each body is chunked once).
ChunksOf ==
    [empty      |-> chunk_text(Body("empty"), DefaultMaxWords),
     one_word   |-> chunk_text(Body("one_word"), DefaultMaxWords),
     two_chunks |-> chunk_text(Body("two_chunks"), DefaultMaxWords)]

\* The credibility completions the search runs meet.
PipelineCreds == {Json("object", ScoreInt(80)), Json("array", ScoreMissing)}

\* What the collaborators may answer.  RunWorld: one search in the session,
\* every answer of the driver, of the extraction and of the model.
\* SessionWorld: several searches with the derived operations between them,
\* fewer answers per call.
RunWorld ==
    [entries |-> MaxEntries, searches |-> {0}, pages |-> Pages,
     drivers |-> DriverOutcomes, creds |-> PipelineCreds, extract_llm |-> LLMOutcomes]

SessionWorld ==
    [entries |-> MaxEntries, searches |-> 0..(MaxRuns - 1),
     pages |-> {Failure("extract_none"), Page("one_word")},
     drivers |-> {"ok", "create_fails"}, creds |-> PipelineCreds,
     extract_llm |-> {"completion"}]

\* CapWorld: one search whose feed may hold more entries than the cap; every
\* article is either skipped or stored with one chunk.
CapWorld ==
    [entries |-> MaxFeed, searches |-> {0},
     pages |-> {Failure("extract_none"), Page("one_word")},
     drivers |-> {"ok"}, creds |-> {Json("object", ScoreInt(80))},
     extract_llm |-> {"completion"}]

Queries == {<< >>, << " " >>, << "a" >>, << " ", "a", " " >>}

NoUrl == << >>

\* An entry of calls: the function called, the article and chunk it was
\* called for (0 when none), what it was given (the merge) and returned.
Call(kind, a, c, out) == [kind |-> kind, a |-> a, c |-> c, arg |-> << >>, out |-> out]
MergeCall(events, out) ==
    [kind |-> "merge_events_to_timeline", a |-> 0, c |-> 0, arg |-> events, out |-> out]
\* The call of a derived operation, with the stored value it was given.
DerivedCall(kind, stored, out) ==
    [kind |-> kind, a |-> 0, c |-> 0, arg |-> stored, out |-> out]
\* The feed search, with the query it was given.
SearchCall(query) ==
    [kind |-> "search_google_news", a |-> 0, c |-> 0, arg |-> query, out |-> << >>]

DerivedKeys == {"translated_timeline", "highlights", "comparison"}

SessionKeys ==
    {"timeline", "articles_data", "translated_timeline", "highlights", "comparison"}

\* entries[:10]
ArticleCap == 10
Capped_All(es) == es

Capped(es) == SubSeq(es, 1, Min(Len(es), ArticleCap))

AppInit ==
    /\ session_state = [keys |-> {}, timeline |-> << >>, articles_data |-> << >>,
                        translated_timeline |-> << >>, highlights |-> << >>,
                        comparison |-> << >>]
    /\ pc = "idle"
    /\ run = 0
    /\ fetched = 0
    /\ entries = << >>
    /\ idx = 0
    /\ real_url = NoUrl
    /\ text = None
    /\ articles_data = << >>
    /\ all_events = << >>
    /\ ai = 0
    /\ chunks = << >>
    /\ ci = 0
    /\ calls = << >>
    /\ shown = {}
    /\ outcome = "none"
    /\ cleared = {}

FnIdle ==
    /\ fn = [name |-> "none", env |-> "none"]
    /\ fn_in = [text |-> << >>, max_words |-> 1]
    /\ fn_out = Returned(None)

\* ------------------------------------------------- functions applied alone
FnInit ==
    /\ fn = [name |-> "none", env |-> "none"]
    /\ fn_in \in [text : AllTexts, max_words : 1..MaxWordsArg]
    /\ fn_out = Returned(None)
    /\ world = RunWorld
    /\ AppInit

Call_chunk_text ==
    /\ fn' = [name |-> "chunk_text", env |-> "none"]
    /\ fn_out' = Returned(chunk_text(fn_in.text, fn_in.max_words))
    /\ UNCHANGED << fn_in, appvars >>

Call_chunk_text_sentences ==
    /\ fn' = [name |-> "chunk_text_sentences", env |-> "none"]
    /\ fn_out' = Returned(chunk_text_sentences(fn_in.text, fn_in.max_words))
    /\ UNCHANGED << fn_in, appvars >>

Call_extract_events_from_chunk ==
    \E llm \in LLMOutcomes :
        /\ fn' = [name |-> "extract_events_from_chunk", env |-> llm]
        /\ fn_out' = extract_events_from_chunk(fn_in.text, "meta", llm, 0)
        /\ UNCHANGED << fn_in, appvars >>

Call_extract_events_from_chunk_archive ==
    \E llm \in LLMOutcomes :
        /\ fn' = [name |-> "extract_events_from_chunk_archive", env |-> llm]
        /\ fn_out' = extract_events_from_chunk_archive(fn_in.text, "meta", llm, 0)
        /\ UNCHANGED << fn_in, appvars >>

Call_resolve_real_url ==
    \E driver \in DriverOutcomes :
        /\ fn' = [name |-> "resolve_real_url", env |-> driver]
        /\ fn_out' = resolve_real_url(<< "link" >>, driver)
        /\ UNCHANGED << fn_in, appvars >>

FnNext ==
    \/ Call_chunk_text
    \/ Call_chunk_text_sentences
    \/ Call_extract_events_from_chunk
    \/ Call_extract_events_from_chunk_archive
    \/ Call_resolve_real_url

SpecFn == FnInit /\ [][FnNext]_vars

\* The functions that call the model, and the consumer of the credibility
\* answer, applied alone to a short text.
Prompts == UNION {[1..n -> Alphabet] : n \in 0..MaxPromptLen}

CallInit ==
    /\ fn = [name |-> "none", env |-> "none"]
    /\ fn_in \in [text : Prompts, max_words : {DefaultMaxWords}]
    /\ fn_out = Returned(None)
    /\ world = RunWorld
    /\ AppInit

Call_merge_events_to_timeline ==
    \E llm \in LLMOutcomes :
        /\ fn' = [name |-> "merge_events_to_timeline", env |-> llm]
        /\ fn_out' = merge_events_to_timeline(<< fn_in.text >>, llm, 0)
        /\ UNCHANGED << fn_in, appvars >>

Call_translate_timeline ==
    \E llm \in LLMOutcomes :
        /\ fn' = [name |-> "translate_timeline", env |-> llm]
        /\ fn_out' = translate_timeline(fn_in.text, "lang", llm, 0)
        /\ UNCHANGED << fn_in, appvars >>

Call_extract_key_highlights ==
    \E llm \in LLMOutcomes :
        /\ fn' = [name |-> "extract_key_highlights", env |-> llm]
        /\ fn_out' = extract_key_highlights(fn_in.text, llm, 0)
        /\ UNCHANGED << fn_in, appvars >>

Call_compare_sources ==
    \E llm \in LLMOutcomes :
        /\ fn' = [name |-> "compare_sources", env |-> llm]
        /\ fn_out' = compare_sources(<< [content |-> fn_in.text] >>, llm, 0)
        /\ UNCHANGED << fn_in, appvars >>

Call_get_credibility_score ==
    \E cred \in CredOutcomes :
        /\ fn' = [name |-> "get_credibility_score", env |-> cred]
        /\ fn_out' = get_credibility_score([content |-> fn_in.text], cred)
        /\ UNCHANGED << fn_in, appvars >>

Call_render_article_card ==
    \E cred \in CredOutcomes \ {Json("raise", ScoreMissing)} :
        /\ fn' = [name |-> "render_article_card", env |-> cred]
        /\ fn_out' = render_article_card([content |-> fn_in.text], cred)
        /\ UNCHANGED << fn_in, appvars >>

CallNext ==
    \/ Call_extract_events_from_chunk
    \/ Call_merge_events_to_timeline
    \/ Call_translate_timeline
    \/ Call_extract_key_highlights
    \/ Call_compare_sources
    \/ Call_get_credibility_score
    \/ Call_render_article_card

SpecCalls == CallInit /\ [][CallNext]_vars

\* The summarisers' build_timeline applied alone to a feed.
TimelineInit ==
    /\ fn = [name |-> "none", env |-> "none"]
    /\ \E n \in 0..MaxTimelineEntries : fn_in \in [entries : [1..n -> FeedEntries]]
    /\ fn_out = Returned(None)
    /\ world = RunWorld
    /\ AppInit

Call_build_timeline ==
    \E now \in 1..MaxTime :
        /\ fn' = [name |-> "build_timeline", env |-> now]
        /\ fn_out' = build_timeline(fn_in.entries, now)
        /\ UNCHANGED << fn_in, appvars >>

Call_build_timeline_app_2 ==
    \E now \in 1..MaxTime :
        /\ fn' = [name |-> "build_timeline_app_2", env |-> now]
        /\ fn_out' = build_timeline_app_2(fn_in.entries, now)
        /\ UNCHANGED << fn_in, appvars >>

Call_build_timeline_app ==
    /\ fn' = [name |-> "build_timeline_app", env |-> 0]
    /\ fn_out' = build_timeline_app(fn_in.entries)
    /\ UNCHANGED << fn_in, appvars >>

TimelineNext ==
    \/ Call_build_timeline
    \/ Call_build_timeline_app_2
    \/ Call_build_timeline_app

SpecTimeline == TimelineInit /\ [][TimelineNext]_vars

\* ------------------------------------------------------ the Streamlit script
\* The script run ends: its locals are gone, the page waits for a click.
EndRun(how) ==
    /\ pc' = "idle"
    /\ outcome' = how
    /\ entries' = << >>
    /\ idx' = 0
    /\ real_url' = NoUrl
    /\ text' = None
    /\ articles_data' = << >>
    /\ all_events' = << >>
    /\ ai' = 0
    /\ chunks' = << >>
    /\ ci' = 0

\* The loop test of "for idx, entry in enumerate(entries[:10])", then the one
\* of "for article in articles_data".
ArticlePc(i, es) == IF i < Len(Capped(es)) THEN "resolve" ELSE "chunk"

EventPc_FirstArticle(a, arts) == "merge"

EventPc(a, arts) == IF a < Len(arts) THEN "chunk" ELSE "merge"

Search_BlankClears ==
    /\ pc = "idle"
    /\ \E query \in Queries :
        IF strip(query) = << >>
        THEN /\ shown' = {"error: Enter a search term."}
             /\ calls' = << >>
             /\ outcome' = "stopped"
             /\ session_state' = [session_state EXCEPT !.keys = {}]
             /\ UNCHANGED << world, pc, run, fetched, locals, cleared >>
        ELSE /\ run \in world.searches
             /\ \E n \in 0..(world.entries - fetched) :
                 /\ entries' = [i \in 1..n |-> << "entry", run + 1, i >>]
                 /\ pc' = ArticlePc(0, entries')
                 /\ fetched' = fetched + n
             /\ run' = run + 1
             /\ calls' = << SearchCall(query) >>
             /\ shown' = {"success: Found articles."}
             /\ outcome' = "running"
             /\ idx' = 0
             /\ articles_data' = << >>
             /\ all_events' = << >>
             /\ UNCHANGED << world, session_state, real_url, text, ai, chunks, ci, cleared >>
    /\ UNCHANGED fnvars

Search_BlankSearches ==
    /\ pc = "idle"
    /\ \E query \in Queries :
        /\ run \in world.searches
        /\ \E n \in 0..(world.entries - fetched) :
            /\ entries' = [i \in 1..n |-> << "entry", run + 1, i >>]
            /\ pc' = ArticlePc(0, entries')
            /\ fetched' = fetched + n
        /\ run' = run + 1
        /\ calls' = << SearchCall(query) >>
        /\ shown' = {"success: Found articles."}
        /\ outcome' = "running"
        /\ idx' = 0
        /\ articles_data' = << >>
        /\ all_events' = << >>
        /\ UNCHANGED << world, session_state, real_url, text, ai, chunks, ci, cleared >>
    /\ UNCHANGED fnvars

\* app.py 266-275: the Search button.  A blank query shows an error and
\* stops the script; otherwise the feed is searched.
Search ==
    /\ pc = "idle"
    /\ \E query \in Queries :
        IF strip(query) = << >>
        THEN /\ shown' = {"error: Enter a search term."}
             /\ calls' = << >>
             /\ outcome' = "stopped"
             /\ UNCHANGED << world, session_state, pc, run, fetched, locals, cleared >>
        ELSE /\ run \in world.searches
             /\ \E n \in 0..(world.entries - fetched) :
                 /\ entries' = [i \in 1..n |-> << "entry", run + 1, i >>]
                 /\ pc' = ArticlePc(0, entries')
                 /\ fetched' = fetched + n
             /\ run' = run + 1
             /\ calls' = << SearchCall(query) >>
             /\ shown' = {"success: Found articles."}
             /\ outcome' = "running"
             /\ idx' = 0
             /\ articles_data' = << >>
             /\ all_events' = << >>
             /\ UNCHANGED << world, session_state, real_url, text, ai, chunks, ci, cleared >>
    /\ UNCHANGED fnvars

\* app.py 279-290: resolve the entry's link.  An exception of
\* resolve_real_url is caught nowhere: the script run ends with it.
ResolveUrl ==
    /\ pc = "resolve"
    /\ \E driver \in world.drivers :
        LET r == resolve_real_url(entries[idx + 1], driver)
        IN  /\ IF r.raised
               THEN /\ EndRun("crashed")
                    /\ shown' = shown \cup {"exception"}
                    /\ calls' = << >>
               ELSE /\ real_url' = r.value
                    /\ calls' = Append(calls, Call("resolve_real_url", idx + 1, 0, << >>))
                    /\ pc' = "fetch"
                    /\ UNCHANGED << shown, outcome, entries, idx, text,
                                    articles_data, all_events, ai, chunks, ci >>
    /\ UNCHANGED << fnvars, world, session_state, run, fetched, cleared >>

FetchText_RetrySkipped ==
    /\ pc = "fetch"
    /\ \E page \in world.pages :
        LET t == extract_text(real_url, page)
        IN  IF t = None
            THEN /\ calls' = SubSeq(calls, 1, Len(calls) - 1)
                 /\ pc' = "resolve"
                 /\ real_url' = NoUrl
                 /\ UNCHANGED << shown, idx, text >>
            ELSE /\ calls' = Append(calls, Call("extract_text", idx + 1, 0, << >>))
                 /\ text' = t
                 /\ pc' = "score"
                 /\ UNCHANGED << shown, idx, real_url >>
    /\ UNCHANGED << fnvars, world, session_state, run, fetched, cleared, outcome, entries,
                    articles_data, all_events, ai, chunks, ci >>

\* app.py 292-297: extract the text; None skips the article.
FetchText ==
    /\ pc = "fetch"
    /\ \E page \in world.pages :
        LET t == extract_text(real_url, page)
        IN  /\ calls' = Append(calls, Call("extract_text", idx + 1, 0, << >>))
            /\ IF t = None
               THEN /\ shown' = shown \cup {"warning: Could not extract content."}
                    /\ idx' = idx + 1
                    /\ pc' = ArticlePc(idx + 1, entries)
                    /\ real_url' = NoUrl
                    /\ UNCHANGED text
               ELSE /\ text' = t
                    /\ pc' = "score"
                    /\ UNCHANGED << shown, idx, real_url >>
    /\ UNCHANGED << fnvars, world, session_state, run, fetched, cleared, outcome, entries,
                    articles_data, all_events, ai, chunks, ci >>

ScoreArticle_CommitsEarly ==
    /\ pc = "score"
    /\ \E cred \in world.creds :
        LET article_obj == [title |-> entries[idx + 1], url |-> real_url, content |-> text]
            cred_json == get_credibility_score(article_obj, cred).value
            stored == [title |-> entries[idx + 1], url |-> real_url, content |-> text,
                       credibility |-> cred_json]
            card == render_article_card(stored, cred_json)
        IN  /\ IF card.raised
               THEN /\ EndRun("crashed")
                    /\ shown' = shown \cup {"exception"}
                    /\ calls' = << >>
                    /\ UNCHANGED session_state
               ELSE /\ articles_data' = Append(articles_data, stored)
                    /\ session_state' = [session_state EXCEPT
                                            !.articles_data = Append(articles_data, stored)]
                    /\ calls' = Append(calls, Call("get_credibility_score", idx + 1, 0, << >>))
                    /\ shown' = shown \cup {"success: Article processed."}
                    /\ idx' = idx + 1
                    /\ pc' = ArticlePc(idx + 1, entries)
                    /\ real_url' = NoUrl
                    /\ text' = None
                    /\ UNCHANGED << outcome, entries, all_events, ai, chunks, ci >>
    /\ UNCHANGED << fnvars, world, run, fetched, cleared >>

\* app.py 299-319: build the article, score it, append it, render its card.
\* An exception of render_article_card is caught nowhere.
ScoreArticle ==
    /\ pc = "score"
    /\ \E cred \in world.creds :
        LET article_obj == [title |-> entries[idx + 1], url |-> real_url, content |-> text]
            cred_json == get_credibility_score(article_obj, cred).value
            stored == [title |-> entries[idx + 1], url |-> real_url, content |-> text,
                       credibility |-> cred_json]
            card == render_article_card(stored, cred_json)
        IN  /\ IF card.raised
               THEN /\ EndRun("crashed")
                    /\ shown' = shown \cup {"exception"}
                    /\ calls' = << >>
               ELSE /\ articles_data' = Append(articles_data, stored)
                    /\ calls' = Append(calls, Call("get_credibility_score", idx + 1, 0, << >>))
                    /\ shown' = shown \cup {"success: Article processed."}
                    /\ idx' = idx + 1
                    /\ pc' = ArticlePc(idx + 1, entries)
                    /\ real_url' = NoUrl
                    /\ text' = None
                    /\ UNCHANGED << outcome, entries, all_events, ai, chunks, ci >>
    /\ UNCHANGED << fnvars, world, session_state, run, fetched, cleared >>

\* app.py 325-332: the next article of articles_data is chunked.
ChunkArticle ==
    /\ pc = "chunk"
    /\ IF ai < Len(articles_data)
       THEN /\ ai' = ai + 1
            /\ chunks' = ChunksOf[articles_data[ai + 1].content]
            /\ ci' = 0
            /\ pc' = IF chunks' = << >> THEN EventPc(ai + 1, articles_data) ELSE "extract"
       ELSE /\ pc' = "merge"
            /\ UNCHANGED << ai, chunks, ci >>
    /\ UNCHANGED << fnvars, world, session_state, run, fetched, cleared, entries, idx, real_url, text,
                    articles_data, all_events, calls, shown, outcome >>

ExtractEvents_DropErrors ==
    /\ pc = "extract"
    /\ \E llm \in world.extract_llm :
        LET metadata == articles_data[ai].title
            events == extract_events_from_chunk(chunks[ci + 1], metadata, llm, run)
        IN  /\ calls' = Append(calls, Call("extract_events_from_chunk", ai, ci + 1, events.value))
            /\ all_events' = IF HasMarker(events.value) THEN all_events
                              ELSE Append(all_events, events.value)
    /\ ci' = ci + 1
    /\ pc' = IF ci + 1 < Len(chunks) THEN "extract" ELSE EventPc(ai, articles_data)
    /\ UNCHANGED << fnvars, world, session_state, run, fetched, cleared, entries, idx, real_url, text,
                    articles_data, ai, chunks, shown, outcome >>

ExtractEvents_Retry ==
    /\ pc = "extract"
    /\ \E llm \in world.extract_llm :
        LET metadata == articles_data[ai].title
            events == extract_events_from_chunk(chunks[ci + 1], metadata, llm, run)
            failed == HasMarker(events.value)
        IN  /\ calls' = Append(calls, Call("extract_events_from_chunk", ai, ci + 1, events.value))
            /\ all_events' = IF failed THEN all_events ELSE Append(all_events, events.value)
            /\ ci' = IF failed THEN ci ELSE ci + 1
            /\ pc' = IF failed \/ ci + 1 < Len(chunks) THEN "extract"
                     ELSE EventPc(ai, articles_data)
    /\ UNCHANGED << fnvars, world, session_state, run, fetched, cleared, entries, idx, real_url, text,
                    articles_data, ai, chunks, shown, outcome >>

\* app.py 333-335: one extraction call for the next chunk.
ExtractEvents ==
    /\ pc = "extract"
    /\ \E llm \in world.extract_llm :
        LET metadata == articles_data[ai].title
            events == extract_events_from_chunk(chunks[ci + 1], metadata, llm, run)
        IN  /\ calls' = Append(calls, Call("extract_events_from_chunk", ai, ci + 1, events.value))
            /\ all_events' = Append(all_events, events.value)
    /\ ci' = ci + 1
    /\ pc' = IF ci + 1 < Len(chunks) THEN "extract" ELSE EventPc(ai, articles_data)
    /\ UNCHANGED << fnvars, world, session_state, run, fetched, cleared, entries, idx, real_url, text,
                    articles_data, ai, chunks, shown, outcome >>

MergeTimeline_KeepComparison ==
    /\ pc = "merge"
    /\ \E llm \in LLMOutcomes :
        LET timeline == merge_events_to_timeline(all_events, llm, run).value
        IN  /\ calls' = Append(calls, MergeCall(all_events, timeline))
            /\ session_state' = [keys |-> SessionKeys,
                                 timeline |-> timeline,
                                 articles_data |-> articles_data,
                                 translated_timeline |-> << >>,
                                 highlights |-> << >>,
                                 comparison |-> session_state.comparison]
    /\ cleared' = {k \in DerivedKeys : session_state[k] # << >>}
    /\ shown' = shown \cup {"success: Timeline generated!"}
    /\ EndRun("completed")
    /\ UNCHANGED << fnvars, world, run, fetched >>

\* app.py 337-348: merge, store, report.
MergeTimeline ==
    /\ pc = "merge"
    /\ \E llm \in LLMOutcomes :
        LET timeline == merge_events_to_timeline(all_events, llm, run).value
        IN  /\ calls' = Append(calls, MergeCall(all_events, timeline))
            /\ session_state' = [keys |-> SessionKeys,
                                 timeline |-> timeline,
                                 articles_data |-> articles_data,
                                 translated_timeline |-> << >>,
                                 highlights |-> << >>,
                                 comparison |-> << >>]
    /\ cleared' = {k \in DerivedKeys : session_state[k] # << >>}
    /\ shown' = shown \cup {"success: Timeline generated!"}
    /\ EndRun("completed")
    /\ UNCHANGED << fnvars, world, run, fetched >>

\* The user stops the script while the search handler runs: the run ends
\* where it is.  calls keeps the log of finished runs only.
Abort ==
    /\ pc # "idle"
    /\ EndRun("aborted")
    /\ calls' = << >>
    /\ UNCHANGED << fnvars, world, session_state, run, fetched, cleared, shown >>

\* app.py 356-358: below the search handler the script stops unless a
\* timeline is stored; the three buttons exist only past that point.
HasTimeline == "timeline" \in session_state.keys

Translate_ClearsHighlights ==
    /\ pc = "idle"
    /\ HasTimeline
    /\ \E llm \in LLMOutcomes :
        LET out == translate_timeline(session_state.timeline, "lang", llm, run).value
        IN  /\ session_state' = [session_state EXCEPT
                                    !.keys = @ \cup {"translated_timeline"},
                                    !.translated_timeline = out, !.highlights = << >>]
            /\ calls' = << DerivedCall("translate_timeline", session_state.timeline, out) >>
    /\ shown' = {"success: Done!"}
    /\ outcome' = "completed"
    /\ UNCHANGED << fnvars, world, pc, run, fetched, locals, cleared >>

\* app.py 364-368
Translate ==
    /\ pc = "idle"
    /\ HasTimeline
    /\ \E llm \in LLMOutcomes :
        LET out == translate_timeline(session_state.timeline, "lang", llm, run).value
        IN  /\ session_state' = [session_state EXCEPT
                                    !.keys = @ \cup {"translated_timeline"}, !.translated_timeline = out]
            /\ calls' = << DerivedCall("translate_timeline", session_state.timeline, out) >>
    /\ shown' = {"success: Done!"}
    /\ outcome' = "completed"
    /\ UNCHANGED << fnvars, world, pc, run, fetched, locals, cleared >>

\* app.py 377-381
Highlights ==
    /\ pc = "idle"
    /\ HasTimeline
    /\ \E llm \in LLMOutcomes :
        LET out == extract_key_highlights(session_state.timeline, llm, run).value
        IN  /\ session_state' = [session_state EXCEPT
                                    !.keys = @ \cup {"highlights"}, !.highlights = out]
            /\ calls' = << DerivedCall("extract_key_highlights", session_state.timeline, out) >>
    /\ shown' = {"success: Done!"}
    /\ outcome' = "completed"
    /\ UNCHANGED << fnvars, world, pc, run, fetched, locals, cleared >>

Compare_Refetches ==
    /\ pc = "idle"
    /\ HasTimeline
    /\ \E llm \in LLMOutcomes :
        LET out == compare_sources(session_state.articles_data, llm, run).value
        IN  /\ session_state' = [session_state EXCEPT
                                    !.keys = @ \cup {"comparison"}, !.comparison = out]
            /\ calls' = << Call("extract_text", 1, 0, << >>),
                           DerivedCall("compare_sources", session_state.articles_data, out) >>
    /\ shown' = {"success: Done!"}
    /\ outcome' = "completed"
    /\ UNCHANGED << fnvars, world, pc, run, fetched, locals, cleared >>

\* app.py 390-394
Compare ==
    /\ pc = "idle"
    /\ HasTimeline
    /\ \E llm \in LLMOutcomes :
        LET out == compare_sources(session_state.articles_data, llm, run).value
        IN  /\ session_state' = [session_state EXCEPT
                                    !.keys = @ \cup {"comparison"}, !.comparison = out]
            /\ calls' = << DerivedCall("compare_sources", session_state.articles_data, out) >>
    /\ shown' = {"success: Done!"}
    /\ outcome' = "completed"
    /\ UNCHANGED << fnvars, world, pc, run, fetched, locals, cleared >>

Init ==
    /\ FnIdle
    /\ world = SessionWorld
    /\ AppInit

RunInit ==
    /\ FnIdle
    /\ world = RunWorld
    /\ AppInit

Next ==
    \/ Search
    \/ ResolveUrl
    \/ FetchText
    \/ ScoreArticle
    \/ ChunkArticle
    \/ ExtractEvents
    \/ MergeTimeline
    \/ Abort
    \/ Translate
    \/ Highlights
    \/ Compare

Spec == Init /\ [][Next]_vars

\* One search run of a fresh session, stopped or not.
RunNext ==
    \/ Search
    \/ ResolveUrl
    \/ FetchText
    \/ ScoreArticle
    \/ ChunkArticle
    \/ ExtractEvents
    \/ MergeTimeline
    \/ Abort

SpecRun == RunInit /\ [][RunNext]_vars

\* One search run that nobody stops and whose every call returns: the
\* script thread takes the handler's next step.
RunStep ==
    \/ ResolveUrl
    \/ FetchText
    \/ ScoreArticle
    \/ ChunkArticle
    \/ ExtractEvents
    \/ MergeTimeline

LiveNext ==
    \/ Search
    \/ ResolveUrl
    \/ FetchText
    \/ ScoreArticle
    \/ ChunkArticle
    \/ ExtractEvents
    \/ MergeTimeline

SpecLive == RunInit /\ [][LiveNext]_vars /\ WF_vars(RunStep)

\* One search run over a feed longer than the cap.
CapInit ==
    /\ FnIdle
    /\ world = CapWorld
    /\ AppInit

SpecCap == CapInit /\ [][RunNext]_vars

\* ------------------------------------------------------------------ claims
RECURSIVE WordsOfChunks(_, _)
WordsOfChunks(cs, i) ==
    IF i > Len(cs) THEN << >> ELSE split(cs[i]) \o WordsOfChunks(cs, i + 1)

Chunked == fn.name \in {"chunk_text", "chunk_text_sentences"}

\* C1: under both splitting policies the words of the chunks, read in order,
\* are exactly the words of the source text in the original order, and the
\* empty text gives the empty chunk sequence.
C1_Lossless ==
    Chunked =>
        /\ WordsOfChunks(fn_out.value, 1) = split(fn_in.text)
        /\ (fn_in.text = << >> => fn_out.value = << >>)

C1_Witness ==
    /\ fn.name = "chunk_text_sentences"
    /\ Len(fn_out.value) >= 2
    /\ Len(split(fn_in.text)) >= 3
    /\ \E i \in 1..Len(fn_in.text) : IsSpace(fn_in.text[i])

\* C2: no chunk has more than max_words words, except a chunk that is one
\* sentence of the text which alone has more than max_words words.
OversizedSentence(c) ==
    /\ fn.name = "chunk_text_sentences"
    /\ \E i \in 1..Len(re_split_sentences(fn_in.text)) :
          /\ strip(re_split_sentences(fn_in.text)[i]) = c
          /\ Len(split(c)) > fn_in.max_words

C2_Bound ==
    Chunked =>
        \A i \in 1..Len(fn_out.value) :
            \/ Len(split(fn_out.value[i])) <= fn_in.max_words
            \/ OversizedSentence(fn_out.value[i])

C2_Witness ==
    /\ Chunked
    /\ \E i \in 1..Len(fn_out.value) : OversizedSentence(fn_out.value[i])
    /\ \E i \in 1..Len(fn_out.value) : Len(split(fn_out.value[i])) = fn_in.max_words

\* ------------------------------------------------- claims about single calls
\* C3: whatever the model call raises, extract_events_from_chunk returns a
\* string carrying the error marker and raises nothing, in app.py and in
\* archive/app_selenium_2.py.
C3_NeverPropagates ==
    (/\ fn.name \in {"extract_events_from_chunk", "extract_events_from_chunk_archive"}
     /\ fn.env = "raise")
        => (~fn_out.raised /\ HasMarker(fn_out.value))

\* C8: whatever step of the resolution fails, creating the driver included,
\* resolve_real_url returns the resolved URL or the URL it was given and
\* raises nothing.
C8_NeverRaises ==
    fn.name = "resolve_real_url"
        => (/\ ~fn_out.raised
            /\ fn_out.value \in {Resolved(<< "link" >>), << "link" >>})

\* ------------------------------------------------ claims about a search run
IsCall(c, kind) == c.kind = kind
IsExtractCall(c) == IsCall(c, "extract_events_from_chunk")
IsMergeCall(c) == IsCall(c, "merge_events_to_timeline")
IsScoreCall(c) == IsCall(c, "get_credibility_score")

ExtractCalls == SelectSeq(calls, IsExtractCall)
MergeCalls == SelectSeq(calls, IsMergeCall)
ScoreCalls == SelectSeq(calls, IsScoreCall)

IsSearchRun == calls # << >> /\ calls[1].kind = "search_google_news"
SearchCompleted == pc = "idle" /\ outcome = "completed" /\ IsSearchRun
TimelineSuccess == "success: Timeline generated!"

\* (article, chunk) for every chunk of every article, article by article.
RECURSIVE ExpectedPairs(_, _)
ExpectedPairs(arts, a) ==
    IF a > Len(arts) THEN << >>
    ELSE [c \in 1..Len(ChunksOf[arts[a].content]) |-> << a, c >>]
             \o ExpectedPairs(arts, a + 1)

PairsOf(cs) == [k \in 1..Len(cs) |-> << cs[k].a, cs[k].c >>]
OutsOf(cs) == [k \in 1..Len(cs) |-> cs[k].out]

\* C4: a search run that extracted no event record issues no merge call,
\* stores no timeline and reports no success.
C4_NoResults ==
    /\ (IsSearchRun /\ MergeCalls # << >>) => ExtractCalls # << >>
    /\ (SearchCompleted /\ ExtractCalls = << >>)
           => (~HasTimeline /\ TimelineSuccess \notin shown)

\* C5: the result of a failed merge call is neither reported as a generated
\* timeline nor stored as the session's timeline.
C5_MergeFailureSurfaced ==
    \A i \in 1..Len(calls) :
        (IsMergeCall(calls[i]) /\ HasMarker(calls[i].out))
            => (/\ TimelineSuccess \notin shown
                /\ ~(HasTimeline /\ session_state.timeline = calls[i].out))

\* C6: the records handed to the merge are the results of one extraction call
\* per chunk of every stored article, in article order and chunk order within
\* the article, error placeholders included.
C6_Flattening ==
    /\ pc = "merge" =>
          /\ PairsOf(ExtractCalls) = ExpectedPairs(articles_data, 1)
          /\ all_events = OutsOf(ExtractCalls)
          /\ Len(all_events) = Len(ExpectedPairs(articles_data, 1))
    /\ SearchCompleted =>
          /\ PairsOf(ExtractCalls) = ExpectedPairs(session_state.articles_data, 1)
          /\ calls[Len(calls)].arg = OutsOf(ExtractCalls)

C6_Witness ==
    /\ pc = "merge"
    /\ Len(articles_data) = 2
    /\ Len(all_events) >= 3
    /\ \E i, j \in 1..Len(all_events) : HasMarker(all_events[i]) /\ ~HasMarker(all_events[j])

\* C7: a search run issues the merge call once, as its last call, after the
\* extraction call of every chunk of every article.
C7_MergeBarrier ==
    /\ (IsSearchRun /\ pc # "idle") => MergeCalls = << >>
    /\ pc = "merge" => Len(ExtractCalls) = Len(ExpectedPairs(articles_data, 1))
    /\ SearchCompleted =>
          /\ Len(MergeCalls) = 1
          /\ IsMergeCall(calls[Len(calls)])
          /\ Len(ExtractCalls) = Len(ExpectedPairs(session_state.articles_data, 1))

C7_Witness ==
    /\ SearchCompleted
    /\ Len(session_state.articles_data) = 2
    /\ Len(ExtractCalls) >= 3

\* C9: an article whose extracted text is empty or absent is not stored, in
\* the run's list or in the session's, and no failure on one article ends the
\* run with an exception.
C9_EmptySkipped ==
    /\ outcome # "crashed"
    /\ \A i \in 1..Len(articles_data) :
          articles_data[i].content # None /\ Body(articles_data[i].content) # << >>
    /\ \A i \in 1..Len(session_state.articles_data) :
          Body(session_state.articles_data[i].content) # << >>

\* ---------------------------------------------------- claims about a session
\* C10: after a completed search the three derived artifacts are empty, the
\* stored timeline is the result of this search's merge call and the stored
\* articles are the articles this search scored.
C10_SearchResets ==
    SearchCompleted =>
        /\ \A k \in DerivedKeys : session_state[k] = << >>
        /\ session_state.keys = SessionKeys
        /\ IsMergeCall(calls[Len(calls)])
        /\ session_state.timeline = calls[Len(calls)].out
        /\ Len(session_state.articles_data) = Len(ScoreCalls)
        /\ \A j \in 1..Len(ScoreCalls) :
              session_state.articles_data[j].title = << "entry", run, ScoreCalls[j].a >>

C10_Witness ==
    /\ SearchCompleted
    /\ run = 2
    /\ cleared = DerivedKeys
    /\ Len(session_state.articles_data) >= 1

\* The derived operations: the function each calls, the artifact each caches.
DerivedCallOf ==
    [translated_timeline |-> "translate_timeline",
     highlights          |-> "extract_key_highlights",
     comparison          |-> "compare_sources"]

IsDerivedCall(c) == \E k \in DerivedKeys : c.kind = DerivedCallOf[k]

\* This step is a run of the derived operation that caches artifact k.
DerivedStep(k) ==
    /\ calls' # calls
    /\ calls' # << >>
    /\ calls'[Len(calls')].kind = DerivedCallOf[k]

\* C11: a run of a derived operation, its model call failed or not, leaves
\* the stored timeline, the stored articles and the two other derived
\* artifacts as they were, and adds no key but its own.
C11_DerivedFrame ==
    [][\A k \in DerivedKeys :
          DerivedStep(k) =>
              /\ session_state'.timeline = session_state.timeline
              /\ session_state'.articles_data = session_state.articles_data
              /\ \A j \in DerivedKeys \ {k} : session_state'[j] = session_state[j]
              /\ session_state'.keys = session_state.keys \cup {k}]_vars

C11_Witness ==
    /\ pc = "idle"
    /\ calls # << >>
    /\ calls[1].kind = "translate_timeline"
    /\ HasMarker(session_state.translated_timeline)
    /\ session_state.highlights # << >>
    /\ ~HasMarker(session_state.comparison) /\ session_state.comparison # << >>
    /\ Len(session_state.articles_data) >= 1

\* C12: a session that has a stored timeline has one after every step: a
\* derived operation, a search with a blank query, an aborted or failed search.
C12_TimelineKept ==
    [][HasTimeline => ("timeline" \in session_state'.keys)]_vars

C12_Witness ==
    /\ HasTimeline
    /\ outcome = "stopped"
    /\ shown = {"error: Enter a search term."}

\* C13: a run of a derived operation makes one call, the model call of its
\* function on the stored timeline (the stored articles for the comparison),
\* and no feed search, resolution, text extraction or event extraction.
C13_DerivedOneCall ==
    [][\A k \in DerivedKeys :
          DerivedStep(k) =>
              /\ Len(calls') = 1
              /\ calls'[1].arg = IF k = "comparison" THEN session_state.articles_data
                                  ELSE session_state.timeline
              /\ calls'[1].out = session_state'[k]
              /\ UNCHANGED << run, fetched, locals >>]_vars

C13_Witness ==
    /\ pc = "idle"
    /\ calls # << >>
    /\ calls[1].kind = "compare_sources"
    /\ Len(calls[1].arg) >= 1
    /\ session_state.comparison = calls[1].out
    /\ run = 2

IsResolveCall(c) == IsCall(c, "resolve_real_url")
IsFetchCall(c) == IsCall(c, "extract_text")
ResolveCalls == SelectSeq(calls, IsResolveCall)
FetchCalls == SelectSeq(calls, IsFetchCall)

\* C14: whatever the length of the feed, a search run resolves and extracts
\* the first 10 entries at most, in feed order, and stores 10 articles at most.
C14_ArticleCap ==
    /\ idx <= ArticleCap
    /\ Len(ResolveCalls) <= ArticleCap
    /\ Len(FetchCalls) <= ArticleCap
    /\ \A i \in 1..Len(ResolveCalls) : ResolveCalls[i].a = i
    /\ \A i \in 1..Len(FetchCalls) : FetchCalls[i].a = i
    /\ Len(articles_data) <= ArticleCap
    /\ Len(session_state.articles_data) <= ArticleCap
    /\ \A i \in 1..Len(articles_data) :
          \E j \in 1..ArticleCap : articles_data[i].title = << "entry", run, j >>

C14_Witness ==
    /\ pc = "merge"
    /\ Len(entries) > ArticleCap
    /\ Len(ResolveCalls) = ArticleCap
    /\ Len(articles_data) = ArticleCap

\* --------------------------------------------- claims about the model calls
AskGptFunctions ==
    {"extract_events_from_chunk", "merge_events_to_timeline", "translate_timeline",
     "extract_key_highlights", "compare_sources"}

\* What get_credibility_score returns when its model call succeeds.
SuccessfulScores ==
    {get_credibility_score([content |-> fn_in.text], cred).value :
        cred \in {c \in CredOutcomes : c.kind # "raise"}}

\* C15: the output of a failed model call carries the error marker, and is
\* none of the outputs a successful call can give: for the five functions
\* built on ask_gpt and for get_credibility_score.
C15_FailuresMarked ==
    /\ (fn.name \in AskGptFunctions /\ fn.env = "raise") => HasMarker(fn_out.value)
    /\ (fn.name = "get_credibility_score" /\ fn.env.kind = "raise")
           => fn_out.value \notin SuccessfulScores

\* C17: render_article_card raises for no credibility output, and shows the
\* default score when the output is not JSON, not an object, or has no
\* numeric score.
C17_CardTolerates ==
    fn.name = "render_article_card" =>
        /\ ~fn_out.raised
        /\ (fn.env.kind # "object" \/ fn.env.score.t # "int")
               => fn_out.value.score = FallbackScore

\* The chunks of the first n articles of arts.
ChunkCount(arts, n) == Len(ExpectedPairs(SubSeq(arts, 1, n), 1))

\* C16: no chunk has two extraction calls, failed or not, and the extraction
\* calls of a run number the chunks reached so far: all of them at the merge.
C16_OneCallPerChunk ==
    /\ \A i, j \in 1..Len(ExtractCalls) :
          i < j => << ExtractCalls[i].a, ExtractCalls[i].c >>
                      # << ExtractCalls[j].a, ExtractCalls[j].c >>
    /\ pc = "extract" => Len(ExtractCalls) = ChunkCount(articles_data, ai - 1) + ci
    /\ pc = "merge" => Len(ExtractCalls) = ChunkCount(articles_data, Len(articles_data))
    /\ SearchCompleted =>
          Len(ExtractCalls) = ChunkCount(session_state.articles_data,
                                         Len(session_state.articles_data))

C16_Witness ==
    /\ SearchCompleted
    /\ Len(ExtractCalls) = 4
    /\ \A i \in 1..Len(ExtractCalls) : HasMarker(ExtractCalls[i].out)

\* --------------------------------------------------- claims about aborted runs
\* A step of a search run other than the return of its merge call.
UncommittedStep ==
    /\ pc # "idle" \/ pc' # "idle"
    /\ ~(pc = "merge" /\ outcome' = "completed")

\* C18: no step of a search run before the return of its merge call writes
\* the session: a run that the user stops or an exception ends leaves the
\* stored timeline, articles and derived artifacts as they were at its start.
C18_AbortCommitsNothing ==
    [][UncommittedStep => session_state' = session_state]_vars

C18_Witness ==
    /\ pc = "idle"
    /\ outcome \in {"aborted", "crashed"}
    /\ run = 2
    /\ "success: Article processed." \in shown
    /\ HasTimeline
    /\ Len(session_state.articles_data) >= 1
    /\ session_state.articles_data[1].title[2] = 1
    /\ session_state.highlights # << >>

\* ------------------------------------------------------ claims about the end
RunStored ==
    /\ outcome = "completed"
    /\ HasTimeline
    /\ TimelineSuccess \in shown
    /\ "exception" \notin shown

RunFailed ==
    /\ outcome = "crashed"
    /\ "exception" \in shown
    /\ TimelineSuccess \notin shown
    /\ ~HasTimeline

Extracted ==
    LET n == IF fn.name = "build_timeline"
             THEN Min(Len(fn_in.entries), TimelineCap) ELSE Len(fn_in.entries)
    IN  {i \in 1..n : fn_in.entries[i].extractable}

\* The time an event is ordered by: its publish time, the current time when
\* that could not be parsed.
OrderTime(e) == IF e.published = NoDate THEN fn.env ELSE e.published.t

\* C20: build_timeline raises for no mix of parseable and unparseable publish
\* times, returns the extracted entries, each once, and returns them in
\* non-decreasing order of publish time, an unparseable time counting as now.
C20_SortedTimeline ==
    fn.name \in {"build_timeline", "build_timeline_app_2", "build_timeline_app"} =>
        /\ ~fn_out.raised
        /\ LET events == fn_out.value
           IN  /\ {events[i].id : i \in 1..Len(events)} = Extracted
               /\ Len(events) = Cardinality(Extracted)
               /\ fn.name # "build_timeline_app" =>
                     \A i, j \in 1..Len(events) :
                         i < j => OrderTime(events[i]) <= OrderTime(events[j])

\* ------------------------------------------------- claims about empty chunks
\* C21: every chunk either splitting policy returns holds at least one word,
\* for every text and every max_words >= 1, also when the first sentence
\* alone has max_words words or more.
C21_NonEmptyChunks ==
    Chunked =>
        \A i \in 1..Len(fn_out.value) : Len(split(fn_out.value[i])) >= 1

\* ------------------------------------------------ claims about a blank query
\* The query is empty or holds whitespace only.
IsBlank(query) == \A i \in 1..Len(query) : IsSpace(query[i])

\* The handler run that starts at this step ends at the blank-query guard:
\* it stops, shows the guard's error, or issues no call at all.
BlankSearchStep ==
    /\ pc = "idle"
    /\ \/ outcome' = "stopped"
       \/ shown' = {"error: Enter a search term."}
       \/ calls' = << >>

\* C22: a search with an empty or whitespace-only query shows the error and
\* stops, issues no feed search, resolution, extraction or model call, and
\* leaves the session's stored timeline, articles and derived artifacts as
\* they were; the feed is searched with no blank query.
C22_BlankQueryInert ==
    [][/\ \A i \in 1..Len(calls') :
              IsCall(calls'[i], "search_google_news") => ~IsBlank(calls'[i].arg)
       /\ BlankSearchStep =>
              /\ shown' = {"error: Enter a search term."}
              /\ outcome' = "stopped"
              /\ calls' = << >>
              /\ session_state' = session_state
              /\ UNCHANGED << pc, run, fetched, locals >>]_vars

C22_Witness ==
    /\ outcome = "stopped"
    /\ calls = << >>
    /\ run >= 1
    /\ SessionKeys \subseteq session_state.keys
    /\ session_state.articles_data # << >>
    /\ \A k \in DerivedKeys : session_state[k] # << >>

====
